---- MODULE Spec2Model ----
(***************************************************************************)
(* Task scheduling subsystem of the Ragflow-MinerU backend:                *)
(*   backend/models/task.py            Task, TaskQueue                     *)
(*   backend/services/task_service.py  TaskService                         *)
(*                                                                         *)
(* The service addresses the model through short aliases; each alias is    *)
(* bound here to the model member it denotes:                              *)
(*   task.start()/complete()/fail()/cancel()                               *)
(*        -> Task.start_task/complete_task/fail_task/cancel_task           *)
(*   task.status, Task.status   -> Task.task_status                        *)
(*   queue.can_accept_task()    -> TaskQueue.can_accept_tasks              *)
(*   queue.update_stats()       -> TaskQueue.update_statistics             *)
(*                                                                         *)
(* The HTTP handler of task creation passes timeout_seconds for the       *)
(* service's timeout argument.                                             *)
(*                                                                         *)
(* Time is counted in seconds; datetime.now() is the variable now.         *)
(***************************************************************************)
EXTENDS Integers, Sequences, FiniteSets, TLC

\* ---------------------------------------------------------------- bounds
MaxTasks == 2           \* task rows created in the lifecycle specification
MaxDispatchTasks == 3   \* task rows created in the dispatch specifications
MaxTicks == 1           \* clock advances
MaxRetriesInput == 2    \* create_task max_retries argument ranges over 1..MaxRetriesInput
MaxDeps == 1            \* length of the dependencies argument of create_task
MaxLimit == 2            \* get_pending_tasks limit argument ranges over 1..MaxLimit
MaxResult == 1          \* result payloads 0..MaxResult, 0 is the empty payload
NumProcs == 2           \* concurrent dispatch attempts (interleaved specification)
NumWorkers == 2         \* registered worker nodes

\* ------------------------------------------------------ program constants
DefaultMaxRetries == 3     \* TaskService.max_retries
ServiceRetryDelay == 60    \* TaskService.retry_delay
DefaultRetryDelay == 60    \* Task.retry_delay default
DefaultQueueMaxWorkers == 1
DefaultQueueMaxTasksPerWorker == 1
DefaultMaxConcurrentTasks == 1   \* WorkerNode.max_concurrent_tasks default
OfflineMinutes == 5              \* WorkerNode.is_online: timedelta(minutes=5)
CleanupHours == 24               \* WorkerNode.cleanup_offline_workers: hours
RetentionDays == 30              \* TaskService.cleanup_old_tasks: days
MaxSchemaRetries == 10           \* TaskCreateSchema.max_retries: 0 <= x <= 10
DefaultMemoryRequirement == 512
DefaultTimeoutSeconds == 3600    \* TaskCreateSchema.timeout_seconds default
TickSeconds == ServiceRetryDelay   \* one clock advance

NULL == -1
NoWorker == 0              \* worker_id of a task no worker is bound to (None)

MaxOf(a, b) == IF a > b THEN a ELSE b
TaskIds == 1..MaxOf(MaxTasks, MaxDispatchTasks)
Procs == 1..NumProcs
WorkerIds == 1..NumWorkers
QueueNames == {"default"}
Priorities == {"urgent", "normal"}
ReadyStatuses == {"pending", "queued", "retry"}
TerminalStatuses == {"completed", "failed", "cancelled", "timeout"}

VARIABLES
    tasks,    \* task table: TaskIds -> row ("none": not yet inserted, "deleted": removed)
    queues,   \* task_queue table: QueueNames -> row
    workers,  \* worker_node table: WorkerIds -> row
    now,      \* datetime.now()
    procs     \* in-flight dispatch attempts (interleaved specification only)

vars == <<tasks, queues, workers, now, procs>>

\* ------------------------------------------------------------ Task model
NoTask ==
    [row |-> "none", task_status |-> "pending", priority |-> "normal",
     queue_name |-> "default", progress |-> 0, created_at |-> 0,
     scheduled_at |-> NULL, started_at |-> NULL, completed_at |-> NULL,
     max_retries |-> DefaultMaxRetries, retry_count |-> 0,
     retry_delay |-> DefaultRetryDelay, result |-> 0,
     error_message |-> "none", depends_on |-> <<>>, worker_id |-> NoWorker]

Live(T, t) == T[t].row = "live"

\* Task.is_completed
is_completed(task) == task.task_status = "completed"

\* Task.is_failed
is_failed(task) == task.task_status \in {"failed", "timeout"}

\* Task.can_retry
can_retry(task) == is_failed(task) /\ task.retry_count < task.max_retries

\* Task.start_task(worker_id); NoWorker when the caller passes none, as the
\* service does
start_task(task, worker_id, at) ==
    [task EXCEPT !.task_status = "running", !.started_at = at, !.progress = 0,
                 !.worker_id = IF worker_id # NoWorker THEN worker_id ELSE @]

\* Task.complete_task
complete_task(task, result, at) ==
    [task EXCEPT !.task_status = "completed", !.completed_at = at,
                 !.progress = 100, !.error_message = "none",
                 !.result = IF result # 0 THEN result ELSE @]

\* Task.fail_task(error, can_retry = allow)
fail_task(task, allow, at) ==
    IF allow /\ can_retry(task)
    THEN [task EXCEPT !.error_message = "error", !.task_status = "retry",
                      !.retry_count = @ + 1]
    ELSE [task EXCEPT !.error_message = "error", !.task_status = "failed",
                      !.completed_at = at]

\* Task.cancel_task (reason = None)
cancel_task(task, at) ==
    [task EXCEPT !.task_status = "cancelled", !.completed_at = at]

\* a timeout that takes the retry branch of a failure
timeout_task_retrying(task, at) ==
    IF task.retry_count < task.max_retries
    THEN [task EXCEPT !.task_status = "retry", !.retry_count = @ + 1,
                      !.error_message = "timeout"]
    ELSE [task EXCEPT !.task_status = "timeout", !.completed_at = at,
                      !.error_message = "timeout"]

\* Task.timeout_task
timeout_task(task, at) ==
    [task EXCEPT !.task_status = "timeout", !.completed_at = at,
                 !.error_message = "timeout"]

Max(a, b) == IF a > b THEN a ELSE b
Min(a, b) == IF a < b THEN a ELSE b

\* Task.update_progress
update_progress(task, progress) ==
    [task EXCEPT !.progress = Max(0, Min(100, progress))]

\* Task.check_dependencies: "true", "false", or "error" when a listed task is
\* gone (BaseModel.get_by_id returns None and .is_completed is read from it)
RECURSIVE CheckDepsFrom(_, _, _)
CheckDepsFrom(T, deps, i) ==
    IF i > Len(deps) THEN "true"
    ELSE IF ~Live(T, deps[i]) THEN "error"
    ELSE IF ~is_completed(T[deps[i]]) THEN "false"
    ELSE CheckDepsFrom(T, deps, i + 1)

check_dependencies(T, task) == CheckDepsFrom(T, task.depends_on, 1)

\* Task.get_pending_tasks: priority_order, 5 for any other value
priority_order(priority) ==
    CASE priority = "urgent" -> 1
      [] priority = "high" -> 2
      [] priority = "normal" -> 3
      [] priority = "low" -> 4
      [] OTHER -> 5

\* ------------------------------------------------------- TaskQueue model
DefaultQueue ==
    [max_workers |-> DefaultQueueMaxWorkers,
     max_tasks_per_worker |-> DefaultQueueMaxTasksPerWorker,
     is_active |-> TRUE, is_paused |-> FALSE,
     total_tasks |-> 0, completed_tasks |-> 0, failed_tasks |-> 0]

QueueTasks(T, q) == {t \in TaskIds : Live(T, t) /\ T[t].queue_name = q}

\* TaskQueue.running_tasks_count
running_tasks_count(T, q) ==
    Cardinality({t \in QueueTasks(T, q) : T[t].task_status = "running"})

\* the test without the paused flag
can_accept_tasks_unpaused(T, Q, q) ==
    /\ Q[q].is_active
    /\ running_tasks_count(T, q) < Q[q].max_workers * Q[q].max_tasks_per_worker

\* TaskQueue.can_accept_tasks
can_accept_tasks(T, Q, q) ==
    /\ Q[q].is_active
    /\ ~Q[q].is_paused
    /\ running_tasks_count(T, q) < Q[q].max_workers * Q[q].max_tasks_per_worker

\* TaskQueue.update_statistics
update_statistics(T, queue, q) ==
    [queue EXCEPT
        !.total_tasks = Cardinality(QueueTasks(T, q)),
        !.completed_tasks =
            Cardinality({t \in QueueTasks(T, q) : T[t].task_status = "completed"}),
        !.failed_tasks =
            Cardinality({t \in QueueTasks(T, q) :
                            T[t].task_status \in {"failed", "timeout", "cancelled"}})]

\* the queue.update_stats() call of the service, guarded by "if queue"
UpdateQueueStats(T, Q, q) ==
    IF q \in QueueNames THEN [Q EXCEPT ![q] = update_statistics(T, Q[q], q)] ELSE Q

\* TaskQueue.pause_queue
pause_queue(queue) == [queue EXCEPT !.is_paused = TRUE]

\* TaskQueue.resume_queue
resume_queue(queue) == [queue EXCEPT !.is_paused = FALSE]

\* ------------------------------------------------------ WorkerNode model
\* a registered worker: the field defaults, serving the default queue
DefaultWorker ==
    [is_active |-> TRUE, is_busy |-> FALSE, last_heartbeat |-> 0,
     max_concurrent_tasks |-> DefaultMaxConcurrentTasks,
     memory_available |-> NULL,
     queue_names |-> {"default"}]

\* the threshold with hours in place of minutes
OnlineThresholdHours(at) == at - OfflineMinutes * 3600

\* datetime.now() - timedelta(minutes=5)
OnlineThreshold(at) == at - OfflineMinutes * 60

\* WorkerNode.is_online
is_online(worker, at) ==
    worker.is_active /\ worker.last_heartbeat > OnlineThreshold(at)

\* WorkerNode.current_tasks_count
current_tasks_count(T, w) ==
    Cardinality({t \in TaskIds : /\ Live(T, t)
                                 /\ T[t].worker_id = w
                                 /\ T[t].task_status = "running"})

\* WorkerNode.can_accept_tasks
worker_can_accept_tasks(T, W, w, at) ==
    /\ is_online(W[w], at)
    /\ ~W[w].is_busy
    /\ current_tasks_count(T, w) < W[w].max_concurrent_tasks

\* WorkerNode.get_available_workers(queue_name): the set it returns
get_available_workers(T, W, queue_name, at) ==
    {w \in WorkerIds :
        /\ W[w].is_active
        /\ W[w].last_heartbeat > OnlineThreshold(at)
        /\ ~W[w].is_busy
        /\ queue_name \in W[w].queue_names
        /\ worker_can_accept_tasks(T, W, w, at)}

\* WorkerNode.get_available_workers(queue_name): the workers its sort by
\* current_tasks_count can put first (equal loads keep the order of the query)
first_available_workers(T, W, queue_name, at) ==
    {w \in get_available_workers(T, W, queue_name, at) :
        \A v \in get_available_workers(T, W, queue_name, at) :
            current_tasks_count(T, w) <= current_tasks_count(T, v)}

\* WorkerNode.update_resources(memory_available)
update_resources(worker, memory_available) ==
    IF memory_available # NULL
    THEN [worker EXCEPT !.memory_available = memory_available]
    ELSE worker

\* WorkerNode.update_heartbeat
update_heartbeat(worker, at) == [worker EXCEPT !.last_heartbeat = at]

\* WorkerNode.cleanup_offline_workers(hours): the worker table afterwards
cleanup_offline_workers(W, hours, at) ==
    [w \in WorkerIds |->
        IF W[w].last_heartbeat < at - hours * 3600
        THEN [W[w] EXCEPT !.is_active = FALSE] ELSE W[w]]

\* --------------------------------------------------------- TaskService

\* TaskService._submit_task: the capacity check
SubmitAllowed(T, Q, task) ==
    task.queue_name \in QueueNames /\ can_accept_tasks(T, Q, task.queue_name)

\* TaskService._submit_task on task t of table T: the table afterwards
submit_task(T, Q, t, at) ==
    IF SubmitAllowed(T, Q, T[t]) THEN [T EXCEPT ![t] = start_task(T[t], NoWorker, at)] ELSE T

\* the retry test with the limit off by one
ShouldRetryOffByOne(task, retry) == retry /\ task.retry_count <= task.max_retries

\* TaskService.fail_task: the retry test
ShouldRetry(task, retry) == retry /\ task.retry_count < task.max_retries

\* TaskService.fail_task: the retry branch (two saves, one row afterwards)
ScheduleRetry(task, at) ==
    [task EXCEPT !.retry_count = @ + 1,
                 !.task_status = "pending",
                 !.error_message = "retry",
                 !.scheduled_at = at + ServiceRetryDelay * (task.retry_count + 1)]

\* Task.add_dependency applied to each id of the dependencies argument in turn
RECURSIVE AddDependencies(_, _, _)
AddDependencies(acc, deps, i) ==
    IF i > Len(deps) THEN acc
    ELSE AddDependencies(
            IF \E j \in 1..Len(acc) : acc[j] = deps[i] THEN acc ELSE Append(acc, deps[i]),
            deps, i + 1)

Created == {t \in TaskIds : tasks[t].row # "none"}
NextId == Cardinality(Created) + 1

\* sequences over S of length 0..n
RECURSIVE SeqsUpTo(_, _)
SeqsUpTo(S, n) ==
    IF n = 0 THEN {<<>>}
    ELSE SeqsUpTo(S, n - 1) \cup
         {Append(s, x) : s \in {u \in SeqsUpTo(S, n - 1) : Len(u) = n - 1}, x \in S}

IdleProc == [pc |-> "idle", kind |-> "none", task |-> 0, todo |-> {},
             snap |-> [t \in TaskIds |-> NoTask]]

Init ==
    /\ tasks = [t \in TaskIds |-> NoTask]
    /\ queues = [q \in QueueNames |-> DefaultQueue]
    /\ workers = [w \in WorkerIds |-> DefaultWorker]
    /\ now = 0
    /\ procs = [p \in Procs |-> IdleProc]

\* the row Task.create inserts, after the add_dependency calls
NewTask(priority, queue_name, scheduled_at, max_retries, dependencies) ==
    [NoTask EXCEPT
        !.row = "live", !.priority = priority, !.queue_name = queue_name,
        !.created_at = now, !.scheduled_at = scheduled_at,
        !.max_retries = IF max_retries # 0 THEN max_retries ELSE DefaultMaxRetries,
        !.depends_on = AddDependencies(<<>>, dependencies, 1)]

\* TaskService.create_task: the validation of queue and dependencies
CreateValid(queue_name, dependencies) ==
    /\ queue_name \in QueueNames
    /\ queues[queue_name].is_active
    /\ \A i \in 1..Len(dependencies) : Live(tasks, dependencies[i])

\* TaskService.create_task: "if not scheduled_at or scheduled_at <= datetime.now()"
SubmitAtCreation(scheduled_at) == scheduled_at = NULL \/ scheduled_at <= now

\* TaskService.create_task, accepted, its arguments drawn from the given sets
CreateTaskWith(maxId, prios, scheds, retries, depseqs) ==
    /\ NextId <= maxId
    /\ \E priority \in prios, queue_name \in QueueNames, scheduled_at \in scheds,
          max_retries \in retries, dependencies \in depseqs :
        LET t == NextId
            inserted == [tasks EXCEPT ![t] =
                NewTask(priority, queue_name, scheduled_at, max_retries, dependencies)]
        IN  /\ CreateValid(queue_name, dependencies)
            /\ tasks' = IF SubmitAtCreation(scheduled_at)
                        THEN submit_task(inserted, queues, t, now)
                        ELSE inserted
    /\ UNCHANGED <<queues, workers, now, procs>>

\* TaskService.create_task, rejected (TaskError): nothing is stored
CreateRejectedWith(maxId, qnames, depseqs) ==
    /\ NextId <= maxId
    /\ \E queue_name \in qnames, dependencies \in depseqs :
        ~CreateValid(queue_name, dependencies)
    /\ UNCHANGED vars

\* the validator of max_retries without its upper bound
SchemaValidNoUpper(max_retries, timeout_seconds) ==
    max_retries >= 0 /\ timeout_seconds > 0

\* TaskCreateSchema: the validators of max_retries and timeout_seconds
SchemaValid(max_retries, timeout_seconds) ==
    /\ 0 <= max_retries
    /\ max_retries <= MaxSchemaRetries
    /\ timeout_seconds > 0

\* TaskListResource.post: TaskCreateSchema, then TaskService.create_task; a
\* request the schema or the service refuses stores nothing
ApiCreateTaskOn(queue_name, scheduled_at, max_retries, timeout_seconds, dependencies) ==
    /\ NextId <= MaxTasks
    /\ LET t == NextId
           inserted == [tasks EXCEPT ![t] =
                NewTask("normal", queue_name, scheduled_at, max_retries, dependencies)]
       IN  tasks' = IF /\ SchemaValid(max_retries, timeout_seconds)
                       /\ CreateValid(queue_name, dependencies)
                    THEN IF SubmitAtCreation(scheduled_at)
                         THEN submit_task(inserted, queues, t, now)
                         ELSE inserted
                    ELSE tasks
    /\ UNCHANGED <<queues, workers, now, procs>>

\* TaskService.update_task_progress
UpdateTaskProgressOn(t, progress) ==
    /\ Live(tasks, t)
    /\ tasks' = [tasks EXCEPT ![t] = update_progress(tasks[t], progress)]
    /\ UNCHANGED <<queues, workers, now, procs>>

\* TaskService.complete_task
CompleteTaskOn(t, result) ==
    /\ Live(tasks, t)
    /\ tasks' = [tasks EXCEPT ![t] = complete_task(tasks[t], result, now)]
    /\ queues' = UpdateQueueStats(tasks', queues, tasks[t].queue_name)
    /\ UNCHANGED <<workers, now, procs>>

\* TaskService.fail_task
FailTaskOn(t, retry) ==
    /\ Live(tasks, t)
    /\ \/ /\ ShouldRetry(tasks[t], retry)
          /\ tasks' = [tasks EXCEPT ![t] = ScheduleRetry(tasks[t], now)]
          /\ queues' = queues
       \/ /\ ~ShouldRetry(tasks[t], retry)
          /\ tasks' = [tasks EXCEPT ![t] = fail_task(tasks[t], TRUE, now)]
          /\ queues' = UpdateQueueStats(tasks', queues, tasks[t].queue_name)
    /\ UNCHANGED <<workers, now, procs>>

\* the status test letting a task that waits for its retry through as well
CanCancelRetry(task) == task.task_status \in {"pending", "running", "retry"}

\* TaskService.cancel_task: the status test
CanCancel(task) == task.task_status \in {"pending", "running"}

\* TaskService.cancel_task
CancelTaskOn(t) ==
    /\ Live(tasks, t)
    /\ \/ /\ CanCancel(tasks[t])
          /\ tasks' = [tasks EXCEPT ![t] = cancel_task(tasks[t], now)]
       \/ /\ ~CanCancel(tasks[t])
          /\ tasks' = tasks
    /\ UNCHANGED <<queues, workers, now, procs>>

\* Task.timeout_task, called by the watchdog for a task it found running
TimeoutTaskOn(t) ==
    /\ Live(tasks, t)
    /\ tasks[t].task_status = "running"
    /\ tasks' = [tasks EXCEPT ![t] = timeout_task(tasks[t], now)]
    /\ UNCHANGED <<queues, workers, now, procs>>

\* the query without its test scheduled_at <= now
ScheduledAnyTime(T, at) ==
    {t \in TaskIds : /\ Live(T, t)
                     /\ T[t].task_status = "pending"
                     /\ T[t].scheduled_at # NULL}

\* TaskService.process_scheduled_tasks: the rows its query selects
ScheduledReady(T, at) ==
    {t \in TaskIds : /\ Live(T, t)
                     /\ T[t].task_status = "pending"
                     /\ T[t].scheduled_at # NULL
                     /\ T[t].scheduled_at <= at}

\* the orders in which the query, which has no ORDER BY, may yield the rows of S
Orders(S) == {s \in [1..Cardinality(S) -> S] : \A i, j \in DOMAIN s : i # j => s[i] # s[j]}

\* TaskService.process_scheduled_tasks: the loop over the selected rows
RECURSIVE SweepFrom(_, _, _, _, _)
SweepFrom(T, Q, order, i, at) ==
    IF i > Len(order) THEN T
    ELSE SweepFrom(
            IF check_dependencies(T, T[order[i]]) = "true"
            THEN submit_task(T, Q, order[i], at) ELSE T,
            Q, order, i + 1, at)

\* TaskService.process_scheduled_tasks
ProcessScheduledTasks ==
    \E order \in Orders(ScheduledReady(tasks, now)) :
        /\ tasks' = SweepFrom(tasks, queues, order, 1, now)
        /\ UNCHANGED <<queues, workers, now, procs>>

\* the clock
Tick ==
    /\ now < MaxTicks * TickSeconds
    /\ now' = now + TickSeconds
    /\ UNCHANGED <<tasks, queues, workers, procs>>

\* ------------------------------------------- lifecycle specification (Spec)
CreateTask == CreateTaskWith(MaxTasks, {"normal"}, {NULL}, 1..MaxRetriesInput, {<<>>})
CompleteTask == \E t \in TaskIds, result \in 0..MaxResult : CompleteTaskOn(t, result)
FailTask == \E t \in TaskIds, retry \in BOOLEAN : FailTaskOn(t, retry)
CancelTask == \E t \in TaskIds : CancelTaskOn(t)
TimeoutTask == \E t \in TaskIds : TimeoutTaskOn(t)

Next ==
    \/ CreateTask
    \/ CompleteTask
    \/ FailTask
    \/ CancelTask
    \/ TimeoutTask
    \/ ProcessScheduledTasks
    \/ Tick

Spec == Init /\ [][Next]_vars

\* ------------------------------- dispatch specification (SpecDispatch)
DispatchSchedules == {NULL, now, now + TickSeconds}

DispatchCreate ==
    CreateTaskWith(MaxDispatchTasks, Priorities, DispatchSchedules, {0},
                   SeqsUpTo(TaskIds, MaxDeps))
DispatchCreateRejected ==
    CreateRejectedWith(MaxDispatchTasks, QueueNames \cup {"unknown"},
                       SeqsUpTo(TaskIds, MaxDeps))
DispatchComplete == \E t \in TaskIds : CompleteTaskOn(t, 0)

NextDispatch ==
    \/ DispatchCreate
    \/ DispatchCreateRejected
    \/ DispatchComplete
    \/ ProcessScheduledTasks
    \/ Tick

SpecDispatch == Init /\ [][NextDispatch]_vars

\* --------------------- interleaved dispatch specification (SpecConc)
\* A dispatch attempt is a create_task request or a process_scheduled_tasks
\* run. Each holds the Task objects it loaded (snap) and takes its database
\* reads and writes as separate steps; Task.save() writes the whole row.

SetProc(p, pc, kind, t, todo, snap) ==
    [procs EXCEPT ![p] = [pc |-> pc, kind |-> kind, task |-> t, todo |-> todo,
                          snap |-> snap]]

OnlyRows(T, S) == [t \in TaskIds |-> IF t \in S THEN T[t] ELSE NoTask]

\* TaskService.create_task up to the _submit_task call
ConcCreate(p) ==
    /\ procs[p].pc = "idle"
    /\ NextId <= MaxDispatchTasks
    /\ \E scheduled_at \in {NULL, now} :
        LET t == NextId
            row == NewTask("normal", "default", scheduled_at, 0, <<>>)
        IN  /\ CreateValid("default", <<>>)
            /\ tasks' = [tasks EXCEPT ![t] = row]
            /\ procs' = IF SubmitAtCreation(scheduled_at)
                        THEN SetProc(p, "submit", "create", t, {}, OnlyRows(tasks', {t}))
                        ELSE procs
    /\ UNCHANGED <<queues, workers, now>>

\* TaskService.process_scheduled_tasks: the query
ConcSweepBegin(p) ==
    /\ procs[p].pc = "idle"
    /\ ScheduledReady(tasks, now) # {}
    /\ procs' = SetProc(p, "loop", "sweep", 0, ScheduledReady(tasks, now),
                        OnlyRows(tasks, ScheduledReady(tasks, now)))
    /\ UNCHANGED <<tasks, queues, workers, now>>

\* TaskService.process_scheduled_tasks: the next row, its check_dependencies
ConcSweepNext(p) ==
    /\ procs[p].pc = "loop"
    /\ \/ /\ procs[p].todo = {}
          /\ procs' = [procs EXCEPT ![p] = IdleProc]
       \/ \E t \in procs[p].todo :
            procs' = IF check_dependencies(tasks, procs[p].snap[t]) = "true"
                     THEN SetProc(p, "submit", "sweep", t, procs[p].todo \ {t},
                                  procs[p].snap)
                     ELSE SetProc(p, "loop", "sweep", 0, procs[p].todo \ {t},
                                  procs[p].snap)
    /\ UNCHANGED <<tasks, queues, workers, now>>

\* where an attempt goes once _submit_task has returned
AfterSubmit(p) ==
    IF procs[p].kind = "sweep"
    THEN SetProc(p, "loop", "sweep", 0, procs[p].todo, procs[p].snap)
    ELSE [procs EXCEPT ![p] = IdleProc]

\* TaskService._submit_task: the queue capacity check
ConcSubmitCheck(p) ==
    /\ procs[p].pc = "submit"
    /\ procs' = IF SubmitAllowed(tasks, queues, procs[p].snap[procs[p].task])
                THEN [procs EXCEPT ![p].pc = "start"]
                ELSE AfterSubmit(p)
    /\ UNCHANGED <<tasks, queues, workers, now>>

\* TaskService._submit_task: task.start(), which saves the loaded object
ConcStart(p) ==
    /\ procs[p].pc = "start"
    /\ LET t == procs[p].task
       IN  tasks' = IF Live(tasks, t)
                    THEN [tasks EXCEPT ![t] = start_task(procs[p].snap[t], NoWorker, now)]
                    ELSE tasks
    /\ procs' = AfterSubmit(p)
    /\ UNCHANGED <<queues, workers, now>>

ConcComplete ==
    \E t \in TaskIds : tasks[t].task_status = "running" /\ CompleteTaskOn(t, 0)

NextConc ==
    \/ \E p \in Procs : ConcCreate(p)
    \/ \E p \in Procs : ConcSweepBegin(p)
    \/ \E p \in Procs : ConcSweepNext(p)
    \/ \E p \in Procs : ConcSubmitCheck(p)
    \/ \E p \in Procs : ConcStart(p)
    \/ ConcComplete
    \/ Tick

SpecConc == Init /\ [][NextConc]_vars

\* ------------------------- sweep specification, sweeps repeated (SpecSweep)
PauseQueue ==
    /\ \E q \in QueueNames : queues' = [queues EXCEPT ![q] = pause_queue(queues[q])]
    /\ UNCHANGED <<tasks, workers, now, procs>>

ResumeQueue ==
    /\ \E q \in QueueNames : queues' = [queues EXCEPT ![q] = resume_queue(queues[q])]
    /\ UNCHANGED <<tasks, workers, now, procs>>

SweepCreate ==
    CreateTaskWith(MaxTasks, Priorities, DispatchSchedules, {0},
                   SeqsUpTo(1..MaxTasks, MaxDeps))

\* the worker that runs a task reports its completion
SweepComplete ==
    \E t \in TaskIds : tasks[t].task_status = "running" /\ CompleteTaskOn(t, 0)

NextSweep ==
    \/ SweepCreate
    \/ SweepComplete
    \/ ProcessScheduledTasks
    \/ PauseQueue
    \/ ResumeQueue
    \/ Tick

\* process_scheduled_tasks is run again and again
SpecSweep == Init /\ [][NextSweep]_vars /\ WF_vars(ProcessScheduledTasks)

\* ------------------------------------- progress specification (SpecProgress)
\* the progress argument of update_task_progress, values out of range included
ProgressInputs == {0 - 50, 0, 50, 100, 150}

ProgressCreate == CreateTaskWith(MaxTasks, {"normal"}, {NULL}, {0}, {<<>>})
UpdateTaskProgress ==
    \E t \in TaskIds, progress \in ProgressInputs : UpdateTaskProgressOn(t, progress)

NextProgress ==
    \/ ProgressCreate
    \/ UpdateTaskProgress
    \/ SweepComplete
    \/ CancelTask
    \/ Tick

SpecProgress == Init /\ [][NextProgress]_vars

\* ------------------------------------------ request specification (SpecApi)
\* the arguments of a creation request, valid and invalid
ApiQueues == QueueNames \cup {"unknown"}
ApiSchedules == {NULL, now + TickSeconds}
ApiRetries == {0 - 1, 0, 1, MaxSchemaRetries + 1}
ApiTimeouts == {0, DefaultTimeoutSeconds}
ApiDependencies == SeqsUpTo(1..MaxTasks, MaxDeps)

ApiCreateTask ==
    \E queue_name \in ApiQueues, scheduled_at \in ApiSchedules,
       max_retries \in ApiRetries, timeout_seconds \in ApiTimeouts,
       dependencies \in ApiDependencies :
        ApiCreateTaskOn(queue_name, scheduled_at, max_retries, timeout_seconds,
                        dependencies)

\* the worker that runs a task reports its failure
ApiFail ==
    \E t \in TaskIds : tasks[t].task_status = "running" /\ FailTaskOn(t, TRUE)

NextApi ==
    \/ ApiCreateTask
    \/ SweepComplete
    \/ ApiFail
    \/ ProcessScheduledTasks
    \/ Tick

SpecApi == Init /\ [][NextApi]_vars

\* ----------------------------------------- worker specification (SpecWorker)
\* The worker process that executes a task the dispatcher marked running (or
\* is about to: the broker delivers before task.start() returns) binds itself
\* to the task: Task.start_task(worker_id = w).
WorkerStartTaskOn(t, w) ==
    /\ Live(tasks, t)
    /\ tasks[t].task_status \in {"pending", "running"}
    /\ tasks' = [tasks EXCEPT ![t] = start_task(tasks[t], w, now)]
    /\ UNCHANGED <<queues, workers, now, procs>>

\* WorkerNode.update_heartbeat, sent by worker w
HeartbeatOn(w) ==
    /\ workers' = [workers EXCEPT ![w] = update_heartbeat(workers[w], now)]
    /\ UNCHANGED <<tasks, queues, now, procs>>

\* TaskService.cleanup_old_tasks: the rows its query selects
OldTasks(T, days, at) ==
    {t \in TaskIds : /\ Live(T, t)
                     /\ T[t].completed_at # NULL
                     /\ T[t].completed_at < at - days * 86400
                     /\ T[t].task_status \in {"completed", "failed", "cancelled"}}

\* TaskService.cleanup_old_tasks: delete_instance on each old task, then
\* WorkerNode.cleanup_offline_workers()
CleanupOldTasks ==
    /\ tasks' = [t \in TaskIds |->
                    IF t \in OldTasks(tasks, RetentionDays, now)
                    THEN [NoTask EXCEPT !.row = "deleted"] ELSE tasks[t]]
    /\ workers' = cleanup_offline_workers(workers, CleanupHours, now)
    /\ UNCHANGED <<queues, now, procs>>

\* the clock of the worker specification: six minutes, a day or the retention
\* period passes, each advance longer than all the time elapsed before it
WorkerClockSteps ==
    {OfflineMinutes * 60 + TickSeconds, CleanupHours * 3600, RetentionDays * 86400}

AdvanceClock ==
    /\ \E d \in WorkerClockSteps : d > now /\ now' = now + d
    /\ UNCHANGED <<tasks, queues, workers, procs>>

\* a queue served by all the registered workers
InitWorker ==
    /\ tasks = [t \in TaskIds |-> NoTask]
    /\ queues = [q \in QueueNames |-> [DefaultQueue EXCEPT !.max_workers = NumWorkers]]
    /\ workers = [w \in WorkerIds |-> DefaultWorker]
    /\ now = 0
    /\ procs = [p \in Procs |-> IdleProc]

WorkerCreate == CreateTaskWith(MaxTasks, {"normal"}, {NULL}, {0}, {<<>>})
WorkerStartTask == \E t \in TaskIds, w \in WorkerIds : WorkerStartTaskOn(t, w)
Heartbeat == \E w \in WorkerIds : HeartbeatOn(w)

NextWorker ==
    \/ WorkerCreate
    \/ WorkerStartTask
    \/ Heartbeat
    \/ DispatchComplete
    \/ CleanupOldTasks
    \/ AdvanceClock

SpecWorker == InitWorker /\ [][NextWorker]_vars

\* -------------------------------------- resource specification (SpecResources)
\* WorkerNode.update_resources, reported by worker w
UpdateResourcesOn(w, memory_available) ==
    /\ workers' = [workers EXCEPT ![w] = update_resources(workers[w], memory_available)]
    /\ UNCHANGED <<tasks, queues, now, procs>>

\* the memory a worker reports: half or twice the requirement of a task
ResourceReports == {DefaultMemoryRequirement \div 2, DefaultMemoryRequirement * 2}

\* the default queue, and workers registered with room for every task
InitResources ==
    /\ tasks = [t \in TaskIds |-> NoTask]
    /\ queues = [q \in QueueNames |-> DefaultQueue]
    /\ workers = [w \in WorkerIds |->
                     [DefaultWorker EXCEPT !.max_concurrent_tasks = MaxTasks]]
    /\ now = 0
    /\ procs = [p \in Procs |-> IdleProc]

UpdateResources ==
    \E w \in WorkerIds, memory_available \in ResourceReports :
        UpdateResourcesOn(w, memory_available)

NextResources ==
    \/ WorkerCreate
    \/ WorkerStartTask
    \/ UpdateResources
    \/ SweepComplete

SpecResources == InitResources /\ [][NextResources]_vars

\* ------------------------------------ retention specification (SpecRetention)
RetentionCreate ==
    CreateTaskWith(MaxTasks, {"normal"}, {NULL, now + TickSeconds}, {0},
                   SeqsUpTo(1..MaxTasks, MaxDeps))

\* the watchdog times a running task out
RetentionTimeout == \E t \in TaskIds : TimeoutTaskOn(t)

NextRetention ==
    \/ RetentionCreate
    \/ SweepComplete
    \/ RetentionTimeout
    \/ ProcessScheduledTasks
    \/ CleanupOldTasks
    \/ AdvanceClock

SpecRetention == Init /\ [][NextRetention]_vars

\* ------------------------------------------------------------- properties

\* task t is running after the step and was not running before it
NewlyRunning(t) ==
    /\ Live(tasks', t)
    /\ tasks'[t].task_status = "running"
    /\ ~(Live(tasks, t) /\ tasks[t].task_status = "running")

\* task t waits in the ready pool at time at
ReadyForDispatch(T, t, at) ==
    /\ Live(T, t)
    /\ T[t].task_status \in ReadyStatuses
    /\ (T[t].scheduled_at = NULL \/ T[t].scheduled_at <= at)
    /\ check_dependencies(T, T[t]) = "true"

\* row a comes before row b in the order (priority rank, created_at)
Before(a, b) ==
    \/ priority_order(a.priority) < priority_order(b.priority)
    \/ /\ priority_order(a.priority) = priority_order(b.priority)
       /\ a.created_at < b.created_at

\* ------------------------------------------------- Task.get_pending_tasks
\* the rows the query of get_pending_tasks selects
PendingRows(T, queue_name, at) ==
    {t \in TaskIds : /\ Live(T, t)
                     /\ T[t].task_status \in ReadyStatuses
                     /\ T[t].queue_name = queue_name
                     /\ (T[t].scheduled_at = NULL \/ T[t].scheduled_at <= at)}

\* order_by(created_at.asc()): the orders the database may return, rows of
\* equal created_at in any order
CreatedAtOrders(T, S) ==
    {o \in Orders(S) :
        \A i, j \in DOMAIN o : i < j => T[o[i]].created_at <= T[o[j]].created_at}

\* .limit(limit)
Limit(o, limit) == SubSeq(o, 1, Min(limit, Len(o)))

\* the position of row t in the list o
Position(o, t) == CHOOSE i \in DOMAIN o : o[i] = t

\* tasks.sort(key = (priority_order, created_at)): a stable sort of the list o
SortByPriority(T, o) ==
    CHOOSE s \in Orders({o[i] : i \in DOMAIN o}) :
        \A i, j \in DOMAIN s :
            i < j => \/ Before(T[s[i]], T[s[j]])
                     \/ /\ ~Before(T[s[j]], T[s[i]])
                        /\ Position(o, s[i]) < Position(o, s[j])

\* the loop over task.check_dependencies()
DependenciesSatisfied(T, o) ==
    SelectSeq(o, LAMBDA t : check_dependencies(T, T[t]) = "true")

\* Task.get_pending_tasks(queue_name, limit): the lists it can return; none
\* when check_dependencies raises on a row of the list
get_pending_tasks(T, queue_name, limit, at) ==
    {DependenciesSatisfied(T, SortByPriority(T, Limit(o, limit))) :
        o \in {c \in CreatedAtOrders(T, PendingRows(T, queue_name, at)) :
                  \A i \in 1..Min(limit, Len(c)) :
                      check_dependencies(T, T[c[i]]) # "error"}}

\* C1: in every reachable state, also with dispatch attempts interleaved, the
\* number of running tasks of a queue is at most max_workers * max_tasks_per_worker.
C1_QueueCapacity ==
    \A q \in QueueNames :
        running_tasks_count(tasks, q)
            <= queues[q].max_workers * queues[q].max_tasks_per_worker

\* C2: of two dispatch attempts that selected the same pending task only one
\* performs the start; no attempt writes a start onto a task that has left the
\* ready statuses.
C2_SingleStartTransition ==
    [][\A p \in Procs :
          (procs[p].pc = "start" /\ procs'[p].pc # "start")
              => tasks[procs[p].task].task_status \in ReadyStatuses]_vars

\* C3: a task is never moved to running while a task listed in its depends_on
\* exists with a status other than completed.
C3_DependenciesBeforeStart ==
    [][\A t \in TaskIds :
          NewlyRunning(t) =>
              \A i \in 1..Len(tasks'[t].depends_on) :
                  LET d == tasks'[t].depends_on[i]
                  IN  Live(tasks, d) => is_completed(tasks[d])]_vars

\* C4: retry_count <= max_retries in every state, and a failure reported while
\* retry_count = max_retries leaves the task in status failed.
C4_RetryLimit ==
    [][/\ \A t \in TaskIds :
            Live(tasks', t) => tasks'[t].retry_count <= tasks'[t].max_retries
       /\ \A t \in TaskIds, retry \in BOOLEAN :
            (FailTaskOn(t, retry) /\ tasks[t].retry_count = tasks[t].max_retries)
                => tasks'[t].task_status = "failed"]_vars

\* C4 witness: a started task that failed with its retries used up
C4_Witness ==
    \E t \in TaskIds :
        /\ Live(tasks, t)
        /\ tasks[t].task_status = "failed"
        /\ tasks[t].retry_count = tasks[t].max_retries
        /\ tasks[t].started_at # NULL
        /\ tasks[t].scheduled_at # NULL

\* C5: once a task is completed, failed, cancelled or timeout, no lifecycle
\* operation changes its status.
C5_TerminalIsFinal ==
    [][\A t \in TaskIds :
          (Live(tasks, t) /\ Live(tasks', t)
                /\ tasks[t].task_status \in TerminalStatuses)
              => tasks'[t].task_status = tasks[t].task_status]_vars

\* C6: a terminal task has completed_at set, and the completed_at of a terminal
\* task is not changed by any later operation.
C6_CompletedAtSetAndFixed ==
    [][\A t \in TaskIds :
          /\ (Live(tasks', t) /\ tasks'[t].task_status \in TerminalStatuses)
                => tasks'[t].completed_at # NULL
          /\ (Live(tasks, t) /\ Live(tasks', t)
                /\ tasks[t].task_status \in TerminalStatuses)
                => tasks'[t].completed_at = tasks[t].completed_at]_vars

\* C7: for a running task and a result r, complete(r) called twice (the second
\* call at the same or a later clock reading) leaves the row that one call leaves.
C7_CompleteIdempotent ==
    \A t \in TaskIds, r \in 0..MaxResult, later \in {now, now + TickSeconds} :
        (Live(tasks, t) /\ tasks[t].task_status = "running")
            => complete_task(complete_task(tasks[t], r, now), r, later)
                 = complete_task(tasks[t], r, now)

\* C8: a task is dispatched only if every ready task of its queue that comes
\* before it in the order (priority rank, created_at) is dispatched as well.
C8_PriorityOrder ==
    [][\A t, u \in TaskIds :
          (/\ NewlyRunning(t)
           /\ ReadyForDispatch(tasks, u, now)
           /\ tasks[u].queue_name = tasks'[t].queue_name
           /\ Before(tasks[u], tasks'[t]))
              => NewlyRunning(u)]_vars

\* C9: a failure with retry allowed, reported for a running task, yields status
\* retry while retries remain and failed once they are used up.
C9_RetryRetryFailed ==
    [][\A t \in TaskIds :
          (FailTaskOn(t, TRUE) /\ tasks[t].task_status = "running")
              => tasks'[t].task_status =
                    (IF tasks[t].retry_count < tasks[t].max_retries
                     THEN "retry" ELSE "failed")]_vars

\* C10: every failure that leads to a retry (retry_count incremented) sets
\* scheduled_at = now + retry_delay * retry_count, with the task's own
\* retry_delay and the incremented retry_count.
C10_LinearBackoff ==
    [][\A t \in TaskIds, retry \in BOOLEAN :
          (FailTaskOn(t, retry) /\ tasks'[t].retry_count = tasks[t].retry_count + 1)
              => tasks'[t].scheduled_at
                    = now + tasks[t].retry_delay * tasks'[t].retry_count]_vars

\* the last heartbeat of worker w is older than the offline threshold
Stale(W, w, at) == at - W[w].last_heartbeat > OfflineMinutes * 60

\* C11: in every reachable state the number of running tasks bound to a worker
\* is at most the worker's max_concurrent_tasks.
C11_WorkerCapacity ==
    \A w \in WorkerIds :
        current_tasks_count(tasks, w) <= workers[w].max_concurrent_tasks

\* C12: a worker whose heartbeat is older than the offline threshold is in no
\* queue's set of available workers, and the step that makes a worker stale
\* changes no task.
C12_StaleWorkerExcluded ==
    [][/\ \A w \in WorkerIds, q \in QueueNames :
            Stale(workers', w, now')
                => w \notin get_available_workers(tasks', workers', q, now')
       /\ \A w \in WorkerIds :
            (~Stale(workers, w, now) /\ Stale(workers', w, now')) => tasks' = tasks]_vars

\* C12 witness: an active worker gone stale with its task still running and
\* bound to it, while another worker is available
C12_Witness ==
    \E w, v \in WorkerIds, t \in TaskIds :
        /\ Stale(workers, w, now)
        /\ workers[w].is_active
        /\ Live(tasks, t)
        /\ tasks[t].task_status = "running"
        /\ tasks[t].worker_id = w
        /\ tasks[t].started_at < now
        /\ v \in get_available_workers(tasks, workers, "default", now)

\* C13: the reap deactivates every worker whose heartbeat is older than the
\* cleanup threshold, and after it no running task is bound to a deactivated
\* worker.
C13_ReapResetsTasks ==
    [][CleanupOldTasks =>
          /\ \A w \in WorkerIds :
                workers[w].last_heartbeat < now - CleanupHours * 3600
                    => ~workers'[w].is_active
          /\ \A t \in TaskIds :
                (/\ Live(tasks', t)
                 /\ tasks'[t].task_status = "running"
                 /\ tasks'[t].worker_id # NoWorker)
                    => workers'[tasks'[t].worker_id].is_active]_vars

\* queue q exists, is active and is not paused
QueueOpen(Q, q) == q \in QueueNames /\ Q[q].is_active /\ ~Q[q].is_paused

\* task t is ready, its queue is open and has free capacity, and no other ready
\* task of the queue comes before it
Dispatchable(t) ==
    /\ ReadyForDispatch(tasks, t, now)
    /\ QueueOpen(queues, tasks[t].queue_name)
    /\ can_accept_tasks(tasks, queues, tasks[t].queue_name)
    /\ ~\E u \in TaskIds \ {t} :
            /\ ReadyForDispatch(tasks, u, now)
            /\ tasks[u].queue_name = tasks[t].queue_name
            /\ Before(tasks[u], tasks[t])

\* C14: with sweeps repeated fairly, no task stays forever ready with its queue
\* open, capacity free and no ready task before it: it is dispatched.
C14_EventualDispatch == \A t \in TaskIds : []<>(~Dispatchable(t))

\* C15: a task whose submission at creation did not start it is left in a
\* ready status and is among the rows the next sweep selects.
C15_FailedDispatchRetried ==
    [][\A t \in TaskIds :
          (/\ ~Live(tasks, t)
           /\ Live(tasks', t)
           /\ SubmitAtCreation(tasks'[t].scheduled_at)
           /\ tasks'[t].task_status # "running")
              => /\ tasks'[t].task_status \in ReadyStatuses
                 /\ t \in ScheduledReady(tasks', now')]_vars

C17_StartOnlyFromReady ==
    [][\A p \in Procs :
          LET t == procs[p].task
          IN  (/\ ConcStart(p)
               /\ Live(tasks, t)
               /\ tasks[t].task_status \notin ReadyStatuses)
                  => /\ tasks'[t].task_status = tasks[t].task_status
                     /\ tasks'[t].started_at = tasks[t].started_at
                     /\ tasks'[t].progress = tasks[t].progress
                     /\ tasks'[t].worker_id = tasks[t].worker_id]_vars

C19_ProgressOnlyWhileRunning ==
    [][\A t \in TaskIds, progress \in ProgressInputs :
          (UpdateTaskProgressOn(t, progress)
                /\ tasks[t].task_status \in TerminalStatuses)
              => tasks'[t] = tasks[t]]_vars

\* C20: an update_progress call on a running task does not lower its progress.
C20_ProgressMonotone ==
    [][\A t \in TaskIds, progress \in ProgressInputs :
          (UpdateTaskProgressOn(t, progress) /\ tasks[t].task_status = "running")
              => tasks'[t].progress >= tasks[t].progress]_vars

\* C21: a creation request with max_retries outside 0..10, timeout_seconds not
\* above 0, an unknown queue or a dependency id that names no task changes
\* nothing: no task row is added and no row is touched.
C21_RejectedCreatePersistsNothing ==
    [][\A queue_name \in ApiQueues, scheduled_at \in ApiSchedules,
         max_retries \in ApiRetries, timeout_seconds \in ApiTimeouts,
         dependencies \in ApiDependencies :
          (/\ ApiCreateTaskOn(queue_name, scheduled_at, max_retries,
                              timeout_seconds, dependencies)
           /\ \/ max_retries \notin 0..MaxSchemaRetries
              \/ timeout_seconds <= 0
              \/ queue_name \notin QueueNames
              \/ \E i \in 1..Len(dependencies) : ~Live(tasks, dependencies[i]))
              => (tasks' = tasks /\ queues' = queues)]_vars

\* C21 witness: a store holding one accepted task, with room for another
\* row, so that a refused request would show
C21_Witness ==
    /\ NextId = 2
    /\ Live(tasks, 1)
    /\ tasks[1].max_retries \in 0..MaxSchemaRetries
    /\ tasks[1].scheduled_at # NULL
    /\ tasks[2] = NoTask
    /\ now > tasks[1].created_at

\* C22: the readiness check of a task returns true when every task of its
\* depends_on that still exists is completed, ids without a row included.
C22_MissingDependencySatisfied ==
    \A t \in TaskIds :
        (/\ Live(tasks, t)
         /\ \A i \in 1..Len(tasks[t].depends_on) :
                Live(tasks, tasks[t].depends_on[i])
                    => is_completed(tasks[tasks[t].depends_on[i]]))
            => check_dependencies(tasks, tasks[t]) = "true"

\* C26: the retention sweep deletes exactly the tasks in a terminal status
\* whose completed_at is older than the cutoff and leaves every other task
\* unchanged.
C26_RetentionDeletesTerminalOnly ==
    [][CleanupOldTasks =>
          \A t \in TaskIds :
              Live(tasks, t) =>
                  IF /\ tasks[t].task_status \in TerminalStatuses
                     /\ tasks[t].completed_at # NULL
                     /\ tasks[t].completed_at < now - RetentionDays * 86400
                  THEN ~Live(tasks', t)
                  ELSE tasks'[t] = tasks[t]]_vars

\* C23: a task is moved to running only when its scheduled_at is unset or has
\* passed, and a task that waited in the store is started by the sweep.
C23_NoStartBeforeSchedule ==
    [][\A t \in TaskIds :
          NewlyRunning(t) =>
              /\ (tasks'[t].scheduled_at = NULL \/ tasks'[t].scheduled_at <= now)
              /\ Live(tasks, t) => ProcessScheduledTasks]_vars

\* C23 witness: a task rescheduled by the backoff after a failure runs again,
\* started at its scheduled time, while a task created for a later time waits
C23_Witness ==
    \E t, u \in TaskIds :
        /\ Live(tasks, t)
        /\ tasks[t].task_status = "running"
        /\ tasks[t].retry_count > 0
        /\ tasks[t].scheduled_at # NULL
        /\ tasks[t].started_at >= tasks[t].scheduled_at
        /\ Live(tasks, u)
        /\ tasks[u].task_status = "pending"
        /\ tasks[u].scheduled_at # NULL
        /\ tasks[u].scheduled_at > now

\* C24: timeout on a running task leaves what fail without retry leaves, but
\* for the status and the message: a terminal status, completed_at set, the
\* timed-out message, retry_count and scheduled_at as they were.
C24_TimeoutAsFinalFail ==
    [][\A t \in TaskIds :
          TimeoutTaskOn(t) =>
              LET failed == fail_task(tasks[t], FALSE, now)
              IN  /\ tasks'[t].task_status \in TerminalStatuses
                  /\ failed.task_status \in TerminalStatuses
                  /\ tasks'[t].completed_at = now
                  /\ tasks'[t].error_message = "timeout"
                  /\ tasks'[t].retry_count = tasks[t].retry_count
                  /\ tasks'[t].scheduled_at = tasks[t].scheduled_at
                  /\ [tasks'[t] EXCEPT !.task_status = failed.task_status,
                                       !.error_message = failed.error_message]
                        = failed]_vars

\* C24 witness: a timed-out task with retries left
C24_Witness ==
    \E t \in TaskIds :
        /\ Live(tasks, t)
        /\ tasks[t].task_status = "timeout"
        /\ tasks[t].retry_count < tasks[t].max_retries
        /\ tasks[t].retry_count > 0
        /\ tasks[t].completed_at = now
        /\ tasks[t].error_message = "timeout"

\* the stored statistics of queue q are the counts of its tasks in table T
StatisticsCurrent(T, Q, q) == Q[q] = update_statistics(T, Q[q], q)

\* C25: after a complete, fail, cancel or timeout that leaves the task in a
\* terminal status, the stored total_tasks, completed_tasks and failed_tasks of
\* its queue equal the counts taken from the task table.
C25_StatisticsAfterTerminalEvent ==
    [][\A t \in TaskIds :
          (/\ \/ \E result \in 0..MaxResult : CompleteTaskOn(t, result)
              \/ \E retry \in BOOLEAN : FailTaskOn(t, retry)
              \/ CancelTaskOn(t)
              \/ TimeoutTaskOn(t)
           /\ tasks'[t].task_status \in TerminalStatuses)
              => StatisticsCurrent(tasks', queues', tasks'[t].queue_name)]_vars

\* C28: an accepted creation stores the max_retries of the request.
C28_MaxRetriesStored ==
    [][\A queue_name \in ApiQueues, scheduled_at \in ApiSchedules,
         max_retries \in ApiRetries, timeout_seconds \in ApiTimeouts,
         dependencies \in ApiDependencies :
          (/\ ApiCreateTaskOn(queue_name, scheduled_at, max_retries,
                              timeout_seconds, dependencies)
           /\ Live(tasks', NextId))
              => tasks'[NextId].max_retries = max_retries]_vars

\* C29: a failure reported a second time for an attempt whose failure already
\* consumed a retry (the task waits for that retry and has not been started
\* since) changes neither retry_count nor scheduled_at.
C29_DuplicateFailureOneRetry ==
    [][\A t \in TaskIds :
          (/\ FailTaskOn(t, TRUE)
           /\ tasks[t].started_at # NULL
           /\ tasks[t].task_status = "pending"
           /\ tasks[t].error_message = "retry")
              => /\ tasks'[t].retry_count = tasks[t].retry_count
                 /\ tasks'[t].scheduled_at = tasks[t].scheduled_at]_vars

\* worker w may take task t: active, online, not busy, below its concurrency
\* limit, serving the queue of t, with at least the memory t requires
Eligible(T, W, w, t, at) ==
    /\ W[w].is_active
    /\ is_online(W[w], at)
    /\ ~W[w].is_busy
    /\ current_tasks_count(T, w) < W[w].max_concurrent_tasks
    /\ T[t].queue_name \in W[w].queue_names
    /\ (W[w].memory_available = NULL \/ W[w].memory_available >= DefaultMemoryRequirement)

\* C27: a worker that comes first among the available workers of the queue of
\* a ready task is eligible for the task (resources included) and no eligible
\* worker runs strictly fewer tasks.
C27_ChosenWorkerEligibleLeastLoaded ==
    \A t \in TaskIds :
        ReadyForDispatch(tasks, t, now) =>
            \A w \in first_available_workers(tasks, workers, tasks[t].queue_name, now) :
                /\ Eligible(tasks, workers, w, t, now)
                /\ \A v \in WorkerIds :
                      Eligible(tasks, workers, v, t, now) =>
                          current_tasks_count(tasks, w) <= current_tasks_count(tasks, v)

\* C30: for every limit from 1 on, the first task of a list get_pending_tasks
\* returns is ready, and no ready task of the queue comes before it in the
\* order (priority rank, created_at).
C30_FirstPendingIsBest ==
    \A queue_name \in QueueNames, limit \in 1..MaxLimit :
        \A ready_tasks \in get_pending_tasks(tasks, queue_name, limit, now) :
            Len(ready_tasks) >= 1 =>
                /\ ReadyForDispatch(tasks, ready_tasks[1], now)
                /\ \A t \in TaskIds :
                      (ReadyForDispatch(tasks, t, now) /\ tasks[t].queue_name = queue_name)
                          => ~Before(tasks[t], tasks[ready_tasks[1]])

====
